---- MODULE Spec2Model ----
(***************************************************************************)
(* Token-bucket rate limiter: the two storage backends (MemoryStorage,     *)
(* RedisStorage) and the atomic_consume_token operation of each.           *)
(*                                                                         *)
(* Token counts are real numbers in the program.  Every count the program  *)
(* can reach from integer clock readings is a multiple of                  *)
(* 1 / (capDen * refill_time), so a count is held here as the integer      *)
(* number of such units; One(c) is one whole token.  Time is in seconds.   *)
(***************************************************************************)
EXTENDS Integers, Sequences, FiniteSets, TLC

VARIABLES cfg, clock, ticks, calls,
          buckets, mt, mlog, mOp,
          redis, rc, rlog, rOp,
          decode_responses, acted, info, credit,
          req, parsed, ctor,
          limiters, made

\* the client setting, and the records of what the facade and the decorator did
ext == <<decode_responses, acted, info, credit, req, parsed, ctor, limiters, made>>

vars == <<cfg, clock, ticks, calls, buckets, mt, mlog, mOp, redis, rc, rlog, rOp, ext>>

----------------------------------------------------------------------------
(* Bounds of the exploration *)

MaxTicks == 2
MaxCalls == 3
NClients == 2
NThreads == 2

(* The key strings, as character sequences: two keys that differ only in   *)
(* letter case.                                                            *)
Keys == { <<"u">>, <<"U">> }

(* Amounts by which the wall clock advances between two steps.             *)
Steps == {1, 3, 7200, 43200}

(* The configurations (capacity = capNum / capDen tokens).                 *)
Configs ==
  { [capNum |-> 1, capDen |-> 1, refill_rate |-> 1, refill_time |-> 60],
    [capNum |-> 1, capDen |-> 1, refill_rate |-> 1, refill_time |-> 2],
    [capNum |-> 2, capDen |-> 1, refill_rate |-> 1, refill_time |-> 2],
    [capNum |-> 2, capDen |-> 1, refill_rate |-> 2, refill_time |-> 86400],
    [capNum |-> 3, capDen |-> 2, refill_rate |-> 1, refill_time |-> 2] }

Clients == 1..NClients
Threads == 1..NThreads

----------------------------------------------------------------------------
(* Arithmetic of the bucket *)

Min(a, b) == IF a <= b THEN a ELSE b

\* one token, in units
One(c) == c.capDen * c.refill_time

\* capacity, in units
Capacity(c) == c.capNum * c.refill_time

\* added_tokens = (elapsed / refill_time) * refill_rate, in units
AddedTokens(c, elapsed) == elapsed * c.refill_rate * c.capDen

\* Refill without the cap at capacity
Refill_NoCap(c, tokens, last_time, current_time) ==
  tokens + AddedTokens(c, current_time - last_time)

\* tokens = min(capacity, tokens + added_tokens)
Refill(c, tokens, last_time, current_time) ==
  Min(Capacity(c), tokens + AddedTokens(c, current_time - last_time))

\* CanConsume with the comparison made strict (tokens > 1)
CanConsume_Strict(c, tokens) == tokens > One(c)

\* if tokens >= 1
CanConsume(c, tokens) == tokens >= One(c)

\* the token count written back: tokens - 1 when allowed, tokens otherwise
AfterConsume(c, tokens) ==
  IF CanConsume(c, tokens) THEN tokens - One(c) ELSE tokens

----------------------------------------------------------------------------
(* RedisStorage *)

key_prefix == <<"rate_limit", ":">>

\* the expiration both writers pass to SETEX
Expiration == 7200

\* _make_key with the key lower-cased before the prefix is put in front
_make_key_Lower(key) ==
  key_prefix \o [i \in DOMAIN key |-> IF key[i] = "U" THEN "u" ELSE key[i]]

\* return f"{self.key_prefix}{key}"
_make_key(key) == key_prefix \o key

RedisKeys == { _make_key(k) : k \in Keys }

\* redis.call('GET', key): the stored value, or <<>> for a missing or expired key
RedisGet(store, rkey, now) ==
  IF rkey \in DOMAIN store /\ now < store[rkey].expireAt
  THEN <<store[rkey].value>>
  ELSE <<>>

\* redis.call('SETEX', key, expiration, value)
RedisSetex(store, rkey, expiration, value, now) ==
  (rkey :> [value |-> value, ttl |-> expiration, expireAt |-> now + expiration])
    @@ store

\* the expiration set_bucket_state passes to setex
SetExpiration == 7200

\* RedisStorage.set_bucket_state: setex(redis_key, 7200, json.dumps(data))
RedisSetBucketState(store, key, tokens, timestamp, now) ==
  RedisSetex(store, _make_key(key), SetExpiration,
             [tokens |-> tokens, timestamp |-> timestamp], now)

\* ConsumeTokenScript with the decrement of the success branch left out
ConsumeTokenScript_NoDecrement(c, store, rkey, current_time, expiration, now) ==
  LET bucket_data == RedisGet(store, rkey, now)
      present     == bucket_data # <<>>
      tokens0     == IF present THEN bucket_data[1].tokens ELSE Capacity(c)
      last_time   == IF present THEN bucket_data[1].timestamp ELSE current_time
      tokens      == Refill(c, tokens0, last_time, current_time)
      new_data    == [tokens |-> tokens, timestamp |-> current_time]
  IN [ had       |-> rkey \in DOMAIN store,
       prev      |-> IF rkey \in DOMAIN store THEN store[rkey].value
                     ELSE [tokens |-> 0, timestamp |-> 0],
       present   |-> present,
       tokens0   |-> tokens0,
       last_time |-> last_time,
       refilled  |-> tokens,
       result    |-> IF CanConsume(c, tokens) THEN 1 ELSE 0,
       store     |-> RedisSetex(store, rkey, expiration, new_data, now) ]

\* The Lua script, run as one step by the server at server time now.
\* The record of what it did: the state it read, the refilled count, the result.
ConsumeTokenScript(c, store, rkey, current_time, expiration, now) ==
  LET bucket_data == RedisGet(store, rkey, now)
      present     == bucket_data # <<>>
      tokens0     == IF present THEN bucket_data[1].tokens ELSE Capacity(c)
      last_time   == IF present THEN bucket_data[1].timestamp ELSE current_time
      tokens      == Refill(c, tokens0, last_time, current_time)
      new_data    == [tokens |-> AfterConsume(c, tokens), timestamp |-> current_time]
  IN [ had       |-> rkey \in DOMAIN store,
       prev      |-> IF rkey \in DOMAIN store THEN store[rkey].value
                     ELSE [tokens |-> 0, timestamp |-> 0],
       present   |-> present,
       tokens0   |-> tokens0,
       last_time |-> last_time,
       refilled  |-> tokens,
       result    |-> IF CanConsume(c, tokens) THEN 1 ELSE 0,
       store     |-> RedisSetex(store, rkey, expiration, new_data, now) ]

----------------------------------------------------------------------------
(* MemoryStorage *)

\* if key not in self.buckets: self.buckets[key] = (capacity, current_time)
MemoryInit(c, b, key, current_time) ==
  IF key \notin DOMAIN b THEN (key :> <<Capacity(c), current_time>>) @@ b ELSE b

\* self.buckets[key] = (tokens, timestamp)
MemorySet(b, key, tokens, timestamp) == (key :> <<tokens, timestamp>>) @@ b

\* MemoryConsume with the denied branch writing back the count it read, not
\* the refilled one
MemoryConsume_DropCredit(c, b, key, current_time) ==
  LET b1        == MemoryInit(c, b, key, current_time)
      tokens0   == b1[key][1]
      last_time == b1[key][2]
      tokens    == Refill(c, tokens0, last_time, current_time)
  IN [ had       |-> key \in DOMAIN b,
       prev      |-> IF key \in DOMAIN b
                     THEN [tokens |-> b[key][1], timestamp |-> b[key][2]]
                     ELSE [tokens |-> 0, timestamp |-> 0],
       present   |-> key \in DOMAIN b,
       tokens0   |-> tokens0,
       last_time |-> last_time,
       refilled  |-> tokens,
       result    |-> IF CanConsume(c, tokens) THEN 1 ELSE 0,
       store     |-> MemorySet(b1, key,
                               IF CanConsume(c, tokens) THEN tokens - One(c) ELSE tokens0,
                               current_time) ]

\* The whole of atomic_consume_token when no other thread runs in between.
MemoryConsume(c, b, key, current_time) ==
  LET b1        == MemoryInit(c, b, key, current_time)
      tokens0   == b1[key][1]
      last_time == b1[key][2]
      tokens    == Refill(c, tokens0, last_time, current_time)
  IN [ had       |-> key \in DOMAIN b,
       prev      |-> IF key \in DOMAIN b
                     THEN [tokens |-> b[key][1], timestamp |-> b[key][2]]
                     ELSE [tokens |-> 0, timestamp |-> 0],
       present   |-> key \in DOMAIN b,
       tokens0   |-> tokens0,
       last_time |-> last_time,
       refilled  |-> tokens,
       result    |-> IF CanConsume(c, tokens) THEN 1 ELSE 0,
       store     |-> MemorySet(b1, key, AfterConsume(c, tokens), current_time) ]

----------------------------------------------------------------------------
(* Bookkeeping of the calls of one key on one backend *)

NoLog == [calls |-> 0, allowed |-> 0, first |-> 0, instant |-> TRUE]

\* one more completed call, sampled at current_time and applied at time now
Logged(log, current_time, now, allowed) ==
  LET first == IF log.calls = 0 THEN current_time ELSE log.first
  IN [ calls   |-> log.calls + 1,
       allowed |-> log.allowed + (IF allowed THEN 1 ELSE 0),
       first   |-> first,
       instant |-> log.instant /\ current_time = first /\ now = first ]

\* What the latest call on a backend did: the n-th call of its key, the record
\* the key had before (prev, when had), the state the call started from
\* (tokens0, last_time), the count after the refill step, and the result.
NoOp == [n |-> 0, key |-> <<>>, had |-> FALSE,
         prev |-> [tokens |-> 0, timestamp |-> 0],
         present |-> FALSE, tokens0 |-> 0, last_time |-> 0,
         current_time |-> 0, refilled |-> 0, allowed |-> FALSE]

OpOf(n, key, current_time, r) ==
  [n |-> n, key |-> key, had |-> r.had, prev |-> r.prev, present |-> r.present,
   tokens0 |-> r.tokens0, last_time |-> r.last_time,
   current_time |-> current_time, refilled |-> r.refilled,
   allowed |-> (r.result = 1)]

----------------------------------------------------------------------------
(* parse_rate_limit_string.  A string is a sequence of characters.         *)

DigitChars == <<"0", "1", "2", "3", "4", "5", "6", "7", "8", "9">>

IsDigit(ch) == \E i \in 1..10 : DigitChars[i] = ch

DigitValue(ch) == (CHOOSE i \in 1..10 : DigitChars[i] = ch) - 1

\* str(n) for n >= 0
RECURSIVE Decimal(_)
Decimal(n) ==
  IF n < 10 THEN <<DigitChars[n + 1]>>
  ELSE Decimal(n \div 10) \o <<DigitChars[(n % 10) + 1]>>

\* s.strip(): without the blanks at both ends
RECURSIVE Strip(_)
Strip(s) ==
  IF s = <<>> THEN s
  ELSE IF Head(s) = " " THEN Strip(Tail(s))
  ELSE IF s[Len(s)] = " " THEN Strip(SubSeq(s, 1, Len(s) - 1))
  ELSE s

\* the value of a string of digits
RECURSIVE DigitsValue(_)
DigitsValue(s) ==
  IF s = <<>> THEN 0
  ELSE DigitsValue(SubSeq(s, 1, Len(s) - 1)) * 10 + DigitValue(s[Len(s)])

\* int(s): blanks at the ends are dropped, then an optional sign, then one or
\* more digits; anything else raises ValueError (ok is FALSE)
IntOf(s) ==
  LET t      == Strip(s)
      signed == t # <<>> /\ Head(t) \in {"+", "-"}
      digits == IF signed THEN Tail(t) ELSE t
      valid  == digits # <<>> /\ \A i \in 1..Len(digits) : IsDigit(digits[i])
  IN [ ok    |-> valid,
       value |-> IF ~valid THEN 0
                 ELSE IF signed /\ Head(t) = "-" THEN 0 - DigitsValue(digits)
                 ELSE DigitsValue(digits) ]

\* the positions of '/' in s
Slashes(s) == { i \in 1..Len(s) : s[i] = "/" }

W_second == <<"s", "e", "c", "o", "n", "d">>
W_minute == <<"m", "i", "n", "u", "t", "e">>
W_hour   == <<"h", "o", "u", "r">>
W_day    == <<"d", "a", "y">>

\* period_map
period_map ==
  (W_second :> 1) @@ (W_minute :> 60) @@ (W_hour :> 3600) @@ (W_day :> 86400)

ParseError == [ok |-> FALSE, capacity |-> 0, refill_rate |-> 0, refill_time |-> 0]

\* parse_rate_limit_string with refill_rate = 1 in place of refill_rate = requests
parse_rate_limit_string_RateOne(rate_string) ==
  IF Slashes(rate_string) = {} THEN ParseError
  ELSE IF Cardinality(Slashes(rate_string)) # 1 THEN ParseError
  ELSE LET i        == CHOOSE j \in Slashes(rate_string) : TRUE
           requests == IntOf(SubSeq(rate_string, 1, i - 1))
           period   == SubSeq(rate_string, i + 1, Len(rate_string))
       IN IF ~requests.ok THEN ParseError
          ELSE IF period \notin DOMAIN period_map THEN ParseError
          ELSE [ ok |-> TRUE, capacity |-> requests.value,
                 refill_rate |-> 1, refill_time |-> period_map[period] ]

\* parse_rate_limit_string(rate_string): every failure of the function is a
\* ValueError (no '/', a split into other than two parts, int(), the period)
parse_rate_limit_string(rate_string) ==
  IF Slashes(rate_string) = {} THEN ParseError
  ELSE IF Cardinality(Slashes(rate_string)) # 1 THEN ParseError
  ELSE LET i        == CHOOSE j \in Slashes(rate_string) : TRUE
           requests == IntOf(SubSeq(rate_string, 1, i - 1))
           period   == SubSeq(rate_string, i + 1, Len(rate_string))
       IN IF ~requests.ok THEN ParseError
          ELSE IF period \notin DOMAIN period_map THEN ParseError
          ELSE [ ok |-> TRUE, capacity |-> requests.value,
                 refill_rate |-> requests.value, refill_time |-> period_map[period] ]

\* the largest request count among the strings tried
MaxRequests == 12

\* left sides and right sides of the strings tried
Lefts ==
  { Decimal(n) : n \in 0..MaxRequests } \cup
  { <<"-", "5">>, <<"+", "3">>, <<" ", "7">>, <<"a", "b", "c">>, <<>>,
    <<"1", ".", "5">> }

Rights ==
  { W_second, W_minute, W_hour, W_day, <<"f", "o", "r", "t", "n", "i", "g", "h", "t">>, <<"M", "i", "n", "u", "t", "e">>, <<"s", "e", "c", "o", "n", "d", "s">>, <<>> }

RateStrings ==
  { l \o <<"/">> \o r : l \in Lefts, r \in Rights } \cup
  Lefts \cup Rights \cup
  { <<"1", "/", "2", "/">> \o W_second, <<"1", "0">> \o W_minute }

\* the string handed to the parser and, once it ran, what it returned
NoParse == [rate_string |-> <<>>, done |-> FALSE, result |-> ParseError]

----------------------------------------------------------------------------
(* get_bucket_state of the two backends and TokenBucket.get_bucket_info.   *)
(* An optional value is a sequence: <<>> for None, <<v>> for v.            *)

\* MemoryStorage.get_bucket_state with a dict.setdefault in place of dict.get
MemoryGetBucketState_SetDefault(b, key) ==
  [ result |-> IF key \in DOMAIN b THEN <<b[key]>> ELSE << <<0, 0>> >>,
    store  |-> IF key \in DOMAIN b THEN b ELSE (key :> <<0, 0>>) @@ b ]

\* MemoryStorage.get_bucket_state: return self.buckets.get(key)
MemoryGetBucketState(b, key) ==
  [ result |-> IF key \in DOMAIN b THEN <<b[key]>> ELSE <<>>,
    store  |-> b ]

\* RedisStorage.get_bucket_state.  The client returns bytes, or str when it
\* was built with decode_responses=True; only bytes are decoded and returned,
\* for str the method runs off its end and returns None.
RedisGetBucketState(store, key, decode, now) ==
  LET data == RedisGet(store, _make_key(key), now)
  IN [ result |-> IF data = <<>> THEN <<>>
                  ELSE IF ~decode THEN << <<data[1].tokens, data[1].timestamp>> >>
                  ELSE <<>>,
       store  |-> store ]

\* TokenBucket.get_bucket_info(key), from the state the storage returned
get_bucket_info(c, state) ==
  IF state = <<>>
  THEN [tokens |-> Capacity(c), last_refill |-> <<>>]
  ELSE [tokens |-> state[1][1], last_refill |-> <<state[1][2]>>]

\* What the latest get_bucket_info call saw and reported: observed says the
\* key had a readable record, stored is that record, state is what
\* get_bucket_state returned.
NoInfo == [n |-> 0, backend |-> "none", key |-> <<>>, at |-> 0,
           observed |-> FALSE, stored |-> <<0, 0>>, state |-> <<>>,
           report |-> [tokens |-> 0, last_refill |-> <<>>]]

----------------------------------------------------------------------------
(* Bookkeeping of the empty bucket: for each key the time at which it was  *)
(* left with exactly 0 tokens (at, -1 when it was not) and the number of   *)
(* later calls denied since; and, for the latest call, the value of at the *)
(* call found (since), the denied calls before it, its time and result.    *)

NoZero == [at |-> 0 - 1, denied |-> 0]

NoCreditOf == [zero |-> [k \in Keys |-> NoZero], key |-> <<>>,
               since |-> 0 - 1, denied |-> 0, now |-> 0, allowed |-> FALSE]

NoCredit == [m |-> NoCreditOf, r |-> NoCreditOf]

\* after a consume call for key at time now
Credited(cr, key, now, allowed, tokensAfter) ==
  LET z == cr.zero[key]
      z1 == IF tokensAfter = 0 /\ (allowed \/ z.at < 0) THEN [at |-> now, denied |-> 0]
            ELSE IF allowed THEN NoZero
            ELSE IF z.at >= 0 /\ now > z.at THEN [at |-> z.at, denied |-> z.denied + 1]
            ELSE z
  IN [ zero |-> [cr.zero EXCEPT ![key] = z1], key |-> key,
       since |-> z.at, denied |-> z.denied, now |-> now, allowed |-> allowed ]

\* after set_bucket_state(key, tokens, timestamp)
CreditSet(cr, key, tokens, timestamp) ==
  [cr EXCEPT !.zero[key] = IF tokens = 0 THEN [at |-> timestamp, denied |-> 0]
                           ELSE NoZero]

\* What the latest decorated request did: the outcome the caller saw
\* ("returned": the wrapped function's result, "429": HTTPException(429),
\* "ConnectionError": the store's exception), how many consume calls it made,
\* how often the wrapped function ran, whether the store round trip of the
\* consume call failed, and the retry-after of a 429.
NoReq == [n |-> 0, backend |-> "none", key |-> <<>>, outcome |-> "none",
          consumed |-> 0, func_runs |-> 0, failed |-> FALSE, allowed |-> FALSE,
          retry_after |-> 0]

\* The arguments of one rate_limit(...) call (limit is a string when str is
\* TRUE, else the number v; None is <<>>), what the call did ("ok": the
\* decorator was built, or the exception raised), the configuration of the
\* TokenBucket it built, and the outcome of the first request made through it.
NoCtor == [limit |-> [str |-> FALSE, s |-> <<>>, v |-> 0],
           refill_rate |-> <<>>, refill_time |-> <<>>,
           built |-> "pending",
           config |-> [capacity |-> 0, refill_rate |-> 0, refill_time |-> 0],
           request |-> "none"]

\* Two limiters built by two rate_limit decorations: the configuration of
\* each, the dict of each one's own MemoryStorage, and what the latest request
\* through one of them (by) did: the record and the decision the other limiter
\* had for the same key before the request and has after it.
NoLast == [n |-> 0, backend |-> "none", by |-> 0, key |-> <<>>, allowed |-> FALSE,
           other_before |-> <<>>, other_after |-> <<>>,
           decision_before |-> 0, decision_after |-> 0]

NoLimiters ==
  [ cfg     |-> [i \in 1..2 |-> CHOOSE c \in Configs : c.refill_time = 60],
    buckets |-> [i \in 1..2 |-> <<>>],
    last    |-> NoLast ]

\* The Redis servers: the default address, another address, and the one the
\* caller's own client is connected to.
Servers == {"localhost", "redis.internal", "redis-cluster.example.com"}

\* One construction of a backend: who was called (via) with which storage_type
\* and options (None is <<>>; redis_client is named by the server it is
\* connected to), what the call did, the storage it built, the dict of a
\* MemoryStorage, the contents of each server, and where the latest consume
\* through the storage wrote its record.
NoMade ==
  [ via |-> "none", storage_type |-> "memory",
    host |-> <<>>, redis_client |-> <<>>, key_prefix |-> <<>>,
    built   |-> "pending",
    storage |-> [kind |-> "none", server |-> "", key_prefix |-> <<>>],
    buckets |-> <<>>,
    servers |-> [sv \in Servers |-> <<>>],
    written |-> <<>> ]

----------------------------------------------------------------------------
\* Nothing stored, nobody inside a call.
Idle ==
  /\ clock = 0
  /\ ticks = 0
  /\ calls = 0
  /\ buckets = <<>>
  /\ mt = [t \in Threads |-> [pc |-> "idle", key |-> <<>>, current_time |-> 0,
                              tokens |-> 0, last_time |-> 0]]
  /\ mlog = [k \in Keys |-> NoLog]
  /\ mOp = NoOp
  /\ redis = <<>>
  /\ rc = [i \in Clients |-> [pc |-> "idle", key |-> <<>>, current_time |-> 0]]
  /\ rlog = [k \in Keys |-> NoLog]
  /\ rOp = NoOp
  /\ acted = <<>>
  /\ info = NoInfo
  /\ credit = NoCredit
  /\ req = NoReq

\* One configuration; the Redis client is the one the factory and the default
\* constructor build (decode_responses=True).
Init ==
  /\ cfg \in Configs
  /\ decode_responses = TRUE
  /\ parsed = NoParse
  /\ ctor = NoCtor
  /\ limiters = NoLimiters
  /\ made = NoMade
  /\ Idle

\* The wall clock advances.
Tick ==
  /\ ticks < MaxTicks
  /\ \E d \in Steps : clock' = clock + d
  /\ ticks' = ticks + 1
  /\ UNCHANGED <<cfg, calls, buckets, mt, mlog, mOp, redis, rc, rlog, rOp, ext>>

----------------------------------------------------------------------------
(* RedisStorage.atomic_consume_token, called by concurrent clients *)

\* redis_key = self._make_key(key); current_time = time.time()
RedisSample(i) ==
  /\ rc[i].pc = "idle"
  /\ calls < MaxCalls
  /\ \E key \in Keys :
       rc' = [rc EXCEPT ![i] = [pc |-> "script", key |-> key, current_time |-> clock]]
  /\ calls' = calls + 1
  /\ UNCHANGED <<cfg, clock, ticks, buckets, mt, mlog, mOp, redis, rlog, rOp, ext>>

\* result = self.consume_token_script(...); return bool(result)
RedisScript(i) ==
  /\ rc[i].pc = "script"
  /\ LET key == rc[i].key
         r   == ConsumeTokenScript(cfg, redis, _make_key(key), rc[i].current_time,
                                   Expiration, clock)
     IN /\ redis' = r.store
        /\ rlog' = [rlog EXCEPT ![key] = Logged(@, rc[i].current_time, clock, r.result = 1)]
        /\ rOp' = OpOf(rlog[key].calls + 1, key, rc[i].current_time, r)
  /\ rc' = [rc EXCEPT ![i].pc = "idle"]
  /\ UNCHANGED <<cfg, clock, ticks, calls, buckets, mt, mlog, mOp, ext>>

RedisNext ==
  \/ Tick
  \/ \E i \in Clients : RedisSample(i)
  \/ \E i \in Clients : RedisScript(i)

RedisSpec == Init /\ [][RedisNext]_vars

----------------------------------------------------------------------------
(* MemoryStorage.atomic_consume_token, called by concurrent threads; a     *)
(* thread can be preempted between any two statements.                     *)

\* current_time = time.time()
MemSample(t) ==
  /\ mt[t].pc = "idle"
  /\ calls < MaxCalls
  /\ \E key \in Keys :
       mt' = [mt EXCEPT ![t] = [pc |-> "check", key |-> key, current_time |-> clock,
                                tokens |-> 0, last_time |-> 0]]
  /\ calls' = calls + 1
  /\ UNCHANGED <<cfg, clock, ticks, buckets, mlog, mOp, redis, rc, rlog, rOp, ext>>

\* if key not in self.buckets:
MemCheck(t) ==
  /\ mt[t].pc = "check"
  /\ mt' = [mt EXCEPT ![t].pc = IF mt[t].key \notin DOMAIN buckets THEN "init" ELSE "read"]
  /\ UNCHANGED <<cfg, clock, ticks, calls, buckets, mlog, mOp, redis, rc, rlog, rOp, ext>>

\* self.buckets[key] = (capacity, current_time)
MemInit(t) ==
  /\ mt[t].pc = "init"
  /\ buckets' = MemorySet(buckets, mt[t].key, Capacity(cfg), mt[t].current_time)
  /\ mt' = [mt EXCEPT ![t].pc = "read"]
  /\ UNCHANGED <<cfg, clock, ticks, calls, mlog, mOp, redis, rc, rlog, rOp, ext>>

\* tokens, last_time = self.buckets[key]
MemRead(t) ==
  /\ mt[t].pc = "read"
  /\ mt' = [mt EXCEPT ![t].pc = "write",
                      ![t].tokens = buckets[mt[t].key][1],
                      ![t].last_time = buckets[mt[t].key][2]]
  /\ UNCHANGED <<cfg, clock, ticks, calls, buckets, mlog, mOp, redis, rc, rlog, rOp, ext>>

\* the refill arithmetic on the thread's locals, the write back and the return
MemWrite(t) ==
  /\ mt[t].pc = "write"
  /\ LET key    == mt[t].key
         now    == mt[t].current_time
         tokens == Refill(cfg, mt[t].tokens, mt[t].last_time, now)
     IN /\ buckets' = MemorySet(buckets, key, AfterConsume(cfg, tokens), now)
        /\ mlog' = [mlog EXCEPT ![key] = Logged(@, now, clock, CanConsume(cfg, tokens))]
        /\ mOp' = [n |-> mlog[key].calls + 1, key |-> key, had |-> TRUE,
                   prev |-> [tokens |-> buckets[key][1], timestamp |-> buckets[key][2]],
                   present |-> TRUE, tokens0 |-> mt[t].tokens,
                   last_time |-> mt[t].last_time, current_time |-> now,
                   refilled |-> tokens, allowed |-> CanConsume(cfg, tokens)]
  /\ mt' = [mt EXCEPT ![t].pc = "idle"]
  /\ UNCHANGED <<cfg, clock, ticks, calls, redis, rc, rlog, rOp, ext>>

MemNext ==
  \/ Tick
  \/ \E t \in Threads : MemSample(t)
  \/ \E t \in Threads : MemCheck(t)
  \/ \E t \in Threads : MemInit(t)
  \/ \E t \in Threads : MemRead(t)
  \/ \E t \in Threads : MemWrite(t)

MemSpec == Init /\ [][MemNext]_vars

----------------------------------------------------------------------------
(* One caller, one call at a time: the same (key, now) call is made on the *)
(* memory backend and on the Redis backend.                                *)

SeqConsume(key) ==
  /\ calls < MaxCalls
  /\ calls' = calls + 1
  /\ LET m == MemoryConsume(cfg, buckets, key, clock)
         r == ConsumeTokenScript(cfg, redis, _make_key(key), clock, Expiration, clock)
     IN /\ buckets' = m.store
        /\ mlog' = [mlog EXCEPT ![key] = Logged(@, clock, clock, m.result = 1)]
        /\ mOp' = OpOf(mlog[key].calls + 1, key, clock, m)
        /\ redis' = r.store
        /\ rlog' = [rlog EXCEPT ![key] = Logged(@, clock, clock, r.result = 1)]
        /\ rOp' = OpOf(rlog[key].calls + 1, key, clock, r)
        /\ credit' = [m |-> Credited(credit.m, key, clock, m.result = 1, m.store[key][1]),
                      r |-> Credited(credit.r, key, clock, r.result = 1,
                                     r.store[_make_key(key)].value.tokens)]
  /\ acted' = key
  /\ UNCHANGED <<cfg, clock, ticks, mt, rc, decode_responses, info, req, parsed, ctor, limiters, made>>

SeqNext ==
  \/ Tick
  \/ \E key \in Keys : SeqConsume(key)

SeqSpec == Init /\ [][SeqNext]_vars

----------------------------------------------------------------------------
(* The storage interface used directly: sequential consume calls together  *)
(* with explicit set_bucket_state writes.                                  *)

\* token counts and timestamps a caller hands to set_bucket_state
SetTokens == {0, Capacity(cfg)}
SetTimes  == {clock}

\* MemoryStorage.set_bucket_state(key, tokens, timestamp)
MemSetBucketState(key) ==
  /\ calls < MaxCalls
  /\ calls' = calls + 1
  /\ \E tokens \in SetTokens, timestamp \in SetTimes :
       /\ buckets' = MemorySet(buckets, key, tokens, timestamp)
       /\ credit' = [credit EXCEPT !.m = CreditSet(@, key, tokens, timestamp)]
  /\ acted' = key
  /\ UNCHANGED <<cfg, clock, ticks, mt, mlog, mOp, redis, rc, rlog, rOp,
                 decode_responses, info, req, parsed, ctor, limiters, made>>

\* RedisStorage.set_bucket_state(key, tokens, timestamp)
RedisSetState(key) ==
  /\ calls < MaxCalls
  /\ calls' = calls + 1
  /\ \E tokens \in SetTokens, timestamp \in SetTimes :
       /\ redis' = RedisSetBucketState(redis, key, tokens, timestamp, clock)
       /\ credit' = [credit EXCEPT !.r = CreditSet(@, key, tokens, timestamp)]
  /\ acted' = key
  /\ UNCHANGED <<cfg, clock, ticks, buckets, mt, mlog, mOp, rc, rlog, rOp,
                 decode_responses, info, req, parsed, ctor, limiters, made>>

\* TokenBucket.get_bucket_info(key) of a limiter on the memory backend
MemInspect(key) ==
  /\ calls < MaxCalls
  /\ calls' = calls + 1
  /\ LET g == MemoryGetBucketState(buckets, key)
     IN /\ buckets' = g.store
        /\ info' = [n |-> info.n + 1, backend |-> "memory", key |-> key, at |-> clock,
                    observed |-> key \in DOMAIN buckets,
                    stored |-> IF key \in DOMAIN buckets THEN buckets[key] ELSE <<0, 0>>,
                    state |-> g.result,
                    report |-> get_bucket_info(cfg, g.result)]
  /\ acted' = key
  /\ UNCHANGED <<cfg, clock, ticks, mt, mlog, mOp, redis, rc, rlog, rOp,
                 decode_responses, credit, req, parsed, ctor, limiters, made>>

\* TokenBucket.get_bucket_info(key) of a limiter on the Redis backend
RedisInspect(key) ==
  /\ calls < MaxCalls
  /\ calls' = calls + 1
  /\ LET g    == RedisGetBucketState(redis, key, decode_responses, clock)
         data == RedisGet(redis, _make_key(key), clock)
     IN /\ redis' = g.store
        /\ info' = [n |-> info.n + 1, backend |-> "redis", key |-> key, at |-> clock,
                    observed |-> data # <<>>,
                    stored |-> IF data # <<>> THEN <<data[1].tokens, data[1].timestamp>>
                               ELSE <<0, 0>>,
                    state |-> g.result,
                    report |-> get_bucket_info(cfg, g.result)]
  /\ acted' = key
  /\ UNCHANGED <<cfg, clock, ticks, buckets, mt, mlog, mOp, rc, rlog, rOp,
                 decode_responses, credit, req, parsed, ctor, limiters, made>>

StoreNext ==
  \/ Tick
  \/ \E key \in Keys : SeqConsume(key)
  \/ \E key \in Keys : MemSetBucketState(key)
  \/ \E key \in Keys : RedisSetState(key)
  \/ \E key \in Keys : MemInspect(key)
  \/ \E key \in Keys : RedisInspect(key)

StoreSpec == Init /\ [][StoreNext]_vars

\* The same interface on a RedisStorage whose client returns bytes
\* (redis.Redis(...), decode_responses left False) or decoded strings.
GetConfigs == { c \in Configs : c.capNum = 2 /\ c.refill_time = 2 }

GetInit ==
  /\ cfg \in GetConfigs
  /\ decode_responses \in BOOLEAN
  /\ parsed = NoParse
  /\ ctor = NoCtor
  /\ limiters = NoLimiters
  /\ made = NoMade
  /\ Idle

GetNext == StoreNext

GetSpec == GetInit /\ [][GetNext]_vars

----------------------------------------------------------------------------
(* The rate_limit decorator: sync_wrapper / async_wrapper around a wrapped *)
(* function, on a limiter of each backend.                                 *)

\* configurations of the decorated functions: those above, "2/second", and
\* one token every 1.5 seconds
WrapConfigs ==
  Configs \cup
  { [capNum |-> 2, capDen |-> 1, refill_rate |-> 2, refill_time |-> 1],
    [capNum |-> 1, capDen |-> 1, refill_rate |-> 2, refill_time |-> 3] }

\* what can happen to one round trip to the Redis server: it completes, the
\* server is unreachable, or the reply is lost after the script ran
Nets == {"ok", "unreachable", "timeout"}

\* RedisStorage.atomic_consume_token over the network: an exception of the
\* client is not caught and leaves the method.
RedisAtomicConsume(c, store, key, current_time, now, net) ==
  LET r == ConsumeTokenScript(c, store, _make_key(key), current_time, Expiration, now)
  IN [ raised |-> net # "ok",
       result |-> r.result = 1,
       script |-> r,
       store  |-> IF net = "unreachable" THEN store ELSE r.store ]

\* retry_after = int(refill_time / refill_rate)
RetryAfter(c) == c.refill_time \div c.refill_rate

\* The wrapper with the store's exception caught and the request let through
Wrapper_FailOpen(c, raised, allowed, info_raised) ==
  IF raised \/ allowed
  THEN [outcome |-> "returned", func_runs |-> 1, retry_after |-> 0]
  ELSE IF info_raised
  THEN [outcome |-> "ConnectionError", func_runs |-> 0, retry_after |-> 0]
  ELSE [outcome |-> "429", func_runs |-> 0, retry_after |-> RetryAfter(c)]

\* The body of sync_wrapper after the key is known: allow_request raised or
\* returned allowed; on a denial get_bucket_info is called (info_raised: it
\* raised) before the 429 is built.
Wrapper(c, raised, allowed, info_raised) ==
  IF raised
  THEN [outcome |-> "ConnectionError", func_runs |-> 0, retry_after |-> 0]
  ELSE IF allowed
  THEN [outcome |-> "returned", func_runs |-> 1, retry_after |-> 0]
  ELSE IF info_raised
  THEN [outcome |-> "ConnectionError", func_runs |-> 0, retry_after |-> 0]
  ELSE [outcome |-> "429", func_runs |-> 0, retry_after |-> RetryAfter(c)]

WrapInit ==
  /\ cfg \in WrapConfigs
  /\ decode_responses = TRUE
  /\ parsed = NoParse
  /\ ctor = NoCtor
  /\ limiters = NoLimiters
  /\ made = NoMade
  /\ Idle

\* a request to a function decorated with storage_type="memory"
MemRequest(key) ==
  /\ calls < MaxCalls
  /\ calls' = calls + 1
  /\ LET m == MemoryConsume(cfg, buckets, key, clock)
         g == MemoryGetBucketState(m.store, key)
         w == Wrapper(cfg, FALSE, m.result = 1, FALSE)
     IN /\ buckets' = IF m.result = 1 THEN m.store ELSE g.store
        /\ mlog' = [mlog EXCEPT ![key] = Logged(@, clock, clock, m.result = 1)]
        /\ mOp' = OpOf(mlog[key].calls + 1, key, clock, m)
        /\ req' = [n |-> req.n + 1, backend |-> "memory", key |-> key,
                   outcome |-> w.outcome, consumed |-> 1, func_runs |-> w.func_runs,
                   failed |-> FALSE, allowed |-> (m.result = 1),
                   retry_after |-> w.retry_after]
  /\ acted' = key
  /\ UNCHANGED <<cfg, clock, ticks, mt, redis, rc, rlog, rOp,
                 decode_responses, info, credit, parsed, ctor, limiters, made>>

\* a request to a function decorated with storage_type="redis"
RedisRequest(key) ==
  /\ calls < MaxCalls
  /\ calls' = calls + 1
  /\ \E net \in Nets, net2 \in {"ok", "unreachable"} :
       LET a == RedisAtomicConsume(cfg, redis, key, clock, clock, net)
           g == RedisGetBucketState(a.store, key, decode_responses, clock)
           w == Wrapper(cfg, a.raised, a.result, net2 # "ok")
       IN /\ redis' = IF ~a.raised /\ ~a.result THEN g.store ELSE a.store
          /\ rlog' = IF net = "unreachable" THEN rlog
                     ELSE [rlog EXCEPT ![key] = Logged(@, clock, clock, a.result)]
          /\ rOp' = IF net = "unreachable" THEN rOp
                    ELSE OpOf(rlog[key].calls + 1, key, clock, a.script)
          /\ req' = [n |-> req.n + 1, backend |-> "redis", key |-> key,
                     outcome |-> w.outcome, consumed |-> 1, func_runs |-> w.func_runs,
                     failed |-> a.raised, allowed |-> (~a.raised /\ a.result),
                     retry_after |-> w.retry_after]
  /\ acted' = key
  /\ UNCHANGED <<cfg, clock, ticks, buckets, mt, mlog, mOp, rc,
                 decode_responses, info, credit, parsed, ctor, limiters, made>>

WrapNext ==
  \/ Tick
  \/ \E key \in Keys : MemRequest(key)
  \/ \E key \in Keys : RedisRequest(key)

WrapSpec == WrapInit /\ [][WrapNext]_vars

----------------------------------------------------------------------------
(* The parser applied to one string *)

ParseInit ==
  /\ cfg = CHOOSE c \in Configs : c.refill_time = 60
  /\ decode_responses = TRUE
  /\ parsed \in { [rate_string |-> rs, done |-> FALSE, result |-> ParseError] :
                  rs \in RateStrings }
  /\ ctor = NoCtor
  /\ limiters = NoLimiters
  /\ made = NoMade
  /\ Idle

Parse ==
  /\ ~parsed.done
  /\ parsed' = [parsed EXCEPT !.done = TRUE,
                              !.result = parse_rate_limit_string(parsed.rate_string)]
  /\ UNCHANGED <<cfg, clock, ticks, calls, buckets, mt, mlog, mOp, redis, rc, rlog, rOp,
                 decode_responses, acted, info, credit, req, ctor, limiters, made>>

ParseNext == Parse

ParseSpec == ParseInit /\ [][ParseNext]_vars

----------------------------------------------------------------------------
(* rate_limit(limit, refill_rate, refill_time) with the default memory     *)
(* backend, and the first request through the function it decorates.       *)

\* The construction-time part of rate_limit.
rate_limit(limit, refill_rate, refill_time) ==
  IF limit.str
  THEN IF refill_rate # <<>> \/ refill_time # <<>>
       THEN [built |-> "ValueError", config |-> NoCtor.config]
       ELSE LET r == parse_rate_limit_string(limit.s)
            IN IF ~r.ok THEN [built |-> "ValueError", config |-> NoCtor.config]
               ELSE [ built  |-> "ok",
                      config |-> [capacity |-> r.capacity, refill_rate |-> r.refill_rate,
                                  refill_time |-> r.refill_time] ]
  ELSE IF refill_rate = <<>> \/ refill_time = <<>>
       THEN [built |-> "ValueError", config |-> NoCtor.config]
       ELSE [ built  |-> "ok",
              config |-> [capacity |-> limit.v, refill_rate |-> refill_rate[1],
                          refill_time |-> refill_time[1]] ]

\* The first request of a key through the decorated function: the bucket is
\* created full and elapsed is 0, so elapsed / refill_time divides by
\* refill_time, the refilled count is the capacity, and a denial divides
\* refill_time by refill_rate for the retry-after.
FirstRequest(config) ==
  IF config.refill_time = 0 THEN "ZeroDivisionError"
  ELSE IF config.capacity >= 1 THEN "returned"
  ELSE IF config.refill_rate = 0 THEN "ZeroDivisionError"
  ELSE "429"

\* the arguments tried
CtorLimits ==
  { [str |-> TRUE, s |-> rs, v |-> 0] :
      rs \in { <<"1", "0", "/">> \o W_minute, <<"0", "/">> \o W_minute,
               <<"-", "5", "/">> \o W_minute, <<"a", "b", "c">>,
               <<"5", "/">> \o <<"f", "o", "r", "t", "n", "i", "g", "h", "t">> } }
  \cup { [str |-> FALSE, s |-> <<>>, v |-> n] : n \in {0 - 1, 0, 1, 2} }

CtorNumbers == { <<>>, <<0 - 1>>, <<0>>, <<1>>, <<60>> }

CtorInit ==
  /\ cfg = CHOOSE c \in Configs : c.refill_time = 60
  /\ decode_responses = TRUE
  /\ parsed = NoParse
  /\ ctor \in { [NoCtor EXCEPT !.limit = l, !.refill_rate = rr, !.refill_time = rt] :
                l \in CtorLimits, rr \in CtorNumbers, rt \in CtorNumbers }
  /\ limiters = NoLimiters
  /\ made = NoMade
  /\ Idle

\* the decorator is built, or the call raises
Construct ==
  /\ ctor.built = "pending"
  /\ LET r == rate_limit(ctor.limit, ctor.refill_rate, ctor.refill_time)
     IN ctor' = [ctor EXCEPT !.built = r.built, !.config = r.config]
  /\ UNCHANGED <<cfg, clock, ticks, calls, buckets, mt, mlog, mOp, redis, rc, rlog, rOp,
                 decode_responses, acted, info, credit, req, parsed, limiters, made>>

\* the first request through the decorated function
CtorRequest ==
  /\ ctor.built = "ok"
  /\ ctor.request = "none"
  /\ ctor' = [ctor EXCEPT !.request = FirstRequest(ctor.config)]
  /\ UNCHANGED <<cfg, clock, ticks, calls, buckets, mt, mlog, mOp, redis, rc, rlog, rOp,
                 decode_responses, acted, info, credit, req, parsed, limiters, made>>

CtorNext == Construct \/ CtorRequest

CtorSpec == CtorInit /\ [][CtorNext]_vars

----------------------------------------------------------------------------
(* Two decorated functions, each with its own rate_limit(...) decoration,  *)
(* serving the same callers.                                               *)

\* The pairs of configurations: the two limiters count tokens in the same
\* unit (same capDen and refill_time).
LimiterConfigs ==
  { p \in [1..2 -> Configs] :
      p[1].capDen = p[2].capDen /\ p[1].refill_time = p[2].refill_time }

\* the other of the two limiters
Other(i) == 3 - i

\* The (tokens, timestamp) pair the Redis server holds under a key
RedisPair(store, rkey, now) ==
  LET data == RedisGet(store, rkey, now)
  IN IF data = <<>> THEN <<>> ELSE << <<data[1].tokens, data[1].timestamp>> >>

LimitersInit ==
  /\ cfg \in Configs
  /\ decode_responses = TRUE
  /\ parsed = NoParse
  /\ ctor = NoCtor
  /\ made = NoMade
  /\ limiters \in { [NoLimiters EXCEPT !.cfg = p] : p \in { q \in LimiterConfigs : q[1] = cfg } }
  /\ Idle

\* A request through limiter i decorated with storage_type="memory": each
\* decoration called StorageFactory.create_storage, which built a new
\* MemoryStorage with a dict of its own.
LimiterMemRequest(i, key) ==
  /\ calls < MaxCalls
  /\ calls' = calls + 1
  /\ LET j == Other(i)
         m == MemoryConsume(limiters.cfg[i], limiters.buckets[i], key, clock)
         b == [limiters.buckets EXCEPT ![i] = m.store]
     IN limiters' =
          [ limiters EXCEPT
              !.buckets = b,
              !.last = [ n |-> limiters.last.n + 1, backend |-> "memory", by |-> i,
                         key |-> key, allowed |-> (m.result = 1),
                         other_before |-> MemoryGetBucketState(limiters.buckets[j], key).result,
                         other_after  |-> MemoryGetBucketState(b[j], key).result,
                         decision_before |->
                           MemoryConsume(limiters.cfg[j], limiters.buckets[j], key, clock).result,
                         decision_after |->
                           MemoryConsume(limiters.cfg[j], b[j], key, clock).result ] ]
  /\ acted' = key
  /\ UNCHANGED <<cfg, clock, ticks, buckets, mt, mlog, mOp, redis, rc, rlog, rOp,
                 decode_responses, info, credit, req, parsed, ctor, made>>

\* A request through limiter i decorated with storage_type="redis" and no
\* key_prefix: each decoration built a RedisStorage on a client of the same
\* server (localhost:6379, db 0) with the prefix "rate_limit:".
LimiterRedisRequest(i, key) ==
  /\ calls < MaxCalls
  /\ calls' = calls + 1
  /\ LET j == Other(i)
         r == ConsumeTokenScript(limiters.cfg[i], redis, _make_key(key), clock,
                                 Expiration, clock)
     IN /\ redis' = r.store
        /\ limiters' =
             [ limiters EXCEPT
                 !.last = [ n |-> limiters.last.n + 1, backend |-> "redis", by |-> i,
                            key |-> key, allowed |-> (r.result = 1),
                            other_before |-> RedisPair(redis, _make_key(key), clock),
                            other_after  |-> RedisPair(r.store, _make_key(key), clock),
                            decision_before |->
                              ConsumeTokenScript(limiters.cfg[j], redis, _make_key(key),
                                                 clock, Expiration, clock).result,
                            decision_after |->
                              ConsumeTokenScript(limiters.cfg[j], r.store, _make_key(key),
                                                 clock, Expiration, clock).result ] ]
  /\ acted' = key
  /\ UNCHANGED <<cfg, clock, ticks, buckets, mt, mlog, mOp, rc, rlog, rOp,
                 decode_responses, info, credit, req, parsed, ctor, made>>

LimitersNext ==
  \/ Tick
  \/ \E i \in 1..2, key \in Keys : LimiterMemRequest(i, key)
  \/ \E i \in 1..2, key \in Keys : LimiterRedisRequest(i, key)

LimitersSpec == LimitersInit /\ [][LimitersNext]_vars

----------------------------------------------------------------------------
(* StorageFactory.create_storage, reached through rate_limit(...,          *)
(* storage_type, storage_config) or through rate_limit_redis(...).         *)

\* RedisStorage._make_key of a storage with the given key_prefix
_make_key_of(prefix, key) == prefix \o key

\* create_storage(storage_type, **kwargs): of the options only host (port, db)
\* and key_prefix are read; the client is always built here.
create_storage(storage_type, kwargs) ==
  IF storage_type = "memory"
  THEN [built |-> "ok", storage |-> [kind |-> "memory", server |-> "", key_prefix |-> <<>>]]
  ELSE IF storage_type = "redis"
  THEN [ built   |-> "ok",
         storage |-> [ kind       |-> "redis",
                       server     |-> IF kwargs.host # <<>> THEN kwargs.host[1]
                                      ELSE "localhost",
                       key_prefix |-> IF kwargs.key_prefix # <<>> THEN kwargs.key_prefix[1]
                                      ELSE key_prefix ] ]
  ELSE [built |-> "ValueError", storage |-> NoMade.storage]

\* rate_limit_redis(limit, redis_host=..., key_prefix=...): the storage_config
\* it passes on holds redis_client None and the key_prefix only.
rate_limit_redis(redis_host, prefix) ==
  create_storage("redis",
                 [ host |-> <<>>, redis_client |-> <<>>,
                   key_prefix |-> << IF prefix # <<>> THEN prefix[1] ELSE key_prefix >> ])

\* the options tried
StorageTypes == {"memory", "redis", "sqlite"}
Hosts    == { <<>>, <<"redis.internal">> }
RedisClients == { <<>>, <<"redis-cluster.example.com">> }
Prefixes == { <<>>, << <<"myapp", ":">> >> }

FactoryInit ==
  /\ cfg \in GetConfigs
  /\ decode_responses = TRUE
  /\ parsed = NoParse
  /\ ctor = NoCtor
  /\ limiters = NoLimiters
  /\ made \in
       { [NoMade EXCEPT !.via = "rate_limit", !.storage_type = st, !.host = h,
                        !.redis_client = rcl, !.key_prefix = px] :
           st \in StorageTypes, h \in Hosts, rcl \in RedisClients, px \in Prefixes }
       \cup
       { [NoMade EXCEPT !.via = "rate_limit_redis", !.storage_type = "redis",
                        !.host = h, !.key_prefix = px] :
           h \in Hosts, px \in Prefixes }
  /\ Idle

\* the decoration builds its storage, or raises
CreateStorage ==
  /\ made.built = "pending"
  /\ LET r == IF made.via = "rate_limit_redis"
              THEN rate_limit_redis(made.host, made.key_prefix)
              ELSE create_storage(made.storage_type,
                                  [ host |-> made.host, redis_client |-> made.redis_client,
                                    key_prefix |-> made.key_prefix ])
     IN made' = [made EXCEPT !.built = r.built, !.storage = r.storage]
  /\ UNCHANGED <<cfg, clock, ticks, calls, buckets, mt, mlog, mOp, redis, rc, rlog, rOp,
                 decode_responses, acted, info, credit, req, parsed, ctor, limiters>>

\* atomic_consume_token(key) through the storage that was built
FactoryConsume(key) ==
  /\ made.built = "ok"
  /\ calls < MaxCalls
  /\ calls' = calls + 1
  /\ IF made.storage.kind = "memory"
     THEN LET m == MemoryConsume(cfg, made.buckets, key, clock)
          IN made' = [made EXCEPT !.buckets = m.store]
     ELSE LET sv   == made.storage.server
              rkey == _make_key_of(made.storage.key_prefix, key)
              r    == ConsumeTokenScript(cfg, made.servers[sv], rkey, clock, Expiration, clock)
          IN made' = [made EXCEPT !.servers[sv] = r.store,
                                  !.written = << [server |-> sv, rkey |-> rkey, key |-> key] >>]
  /\ acted' = key
  /\ UNCHANGED <<cfg, clock, ticks, buckets, mt, mlog, mOp, redis, rc, rlog, rOp,
                 decode_responses, info, credit, req, parsed, ctor, limiters>>

FactoryNext ==
  \/ Tick
  \/ CreateStorage
  \/ \E key \in Keys : FactoryConsume(key)

FactorySpec == FactoryInit /\ [][FactoryNext]_vars

----------------------------------------------------------------------------
(* Properties *)

\* whole admissions a token count allows
Admissions(c, tokens) == tokens \div One(c)

\* C1: on the Redis backend, when every call made so far for a fresh key was
\* sampled and run at one and the same instant, and the capacity is an integer
\* C >= 1, exactly min(K, C) of the K calls were allowed, whatever the order in
\* which the clients reached the server.
C1_RedisSameInstantAllowsMinKC ==
  \A k \in Keys :
    (cfg.capDen = 1 /\ rlog[k].instant)
      => rlog[k].allowed = Min(rlog[k].calls, cfg.capNum)

\* C1 witness: more same-instant calls than the capacity have completed on one
\* key while another client was inside its own call for that key.
C1_Witness ==
  \E k \in Keys :
    /\ cfg.capDen = 1
    /\ rlog[k].instant
    /\ rlog[k].calls > cfg.capNum
    /\ rlog[k].allowed = cfg.capNum
    /\ \E i \in Clients : rc[i].pc = "script" /\ rc[i].key = k /\ rc[i].current_time = clock

\* C2: on the memory backend with capacity 1, when every call made so far for
\* a fresh key was sampled and completed at one and the same instant, exactly
\* one of them was allowed.
C2_MemorySameInstantAllowsOne ==
  \A k \in Keys :
    (cfg.capNum = 1 /\ cfg.capDen = 1 /\ mlog[k].instant /\ mlog[k].calls >= 1)
      => mlog[k].allowed = 1

\* C3: after the same sequence of (key, now) calls the two backends gave the
\* same outcome to the latest call and hold the same token count for every key.
C3_BackendsAgree ==
  /\ mOp.allowed = rOp.allowed
  /\ \A k \in Keys :
       k \in DOMAIN buckets
         => /\ _make_key(k) \in DOMAIN redis
            /\ redis[_make_key(k)].value.tokens = buckets[k][1]

\* C4: when all calls for a fresh key are made one after the other at the same
\* instant, the n-th call is allowed exactly when n <= capacity, on both backends.
C4_FirstCapacityCallsAllowed ==
  /\ (mOp.n > 0 /\ mlog[mOp.key].instant)
       => (mOp.allowed <=> mOp.n * One(cfg) <= Capacity(cfg))
  /\ (rOp.n > 0 /\ rlog[rOp.key].instant)
       => (rOp.allowed <=> rOp.n * One(cfg) <= Capacity(cfg))

\* C4 witness: the call after the last one the capacity covers was made at the
\* instant of the first and was denied, on both backends.
C4_Witness ==
  /\ mOp.n >= 2 /\ mlog[mOp.key].instant
  /\ mlog[mOp.key].allowed = mOp.n - 1 /\ ~mOp.allowed
  /\ rOp.n >= 2 /\ rlog[rOp.key].instant
  /\ rlog[rOp.key].allowed = rOp.n - 1 /\ ~rOp.allowed

\* The claim of C5 for one call: the call came a whole number n of token
\* intervals (refill_time / refill_rate) after the previous call of its key,
\* and finds n more admissions than that call left, up to the capacity.
RefilledByWholeTokens(op) ==
  LET elapsed == op.current_time - op.prev.timestamp
  IN (op.had /\ elapsed >= 0 /\ (elapsed * cfg.refill_rate) % cfg.refill_time = 0)
       => Admissions(cfg, op.refilled)
            = Min(Admissions(cfg, op.prev.tokens)
                    + (elapsed * cfg.refill_rate) \div cfg.refill_time,
                  Admissions(cfg, Capacity(cfg)))

\* C5: a call made exactly n token intervals after the previous call of its key
\* finds exactly n more admissions than that call left, capped at capacity.
C5_MonotonicRefill == RefilledByWholeTokens(mOp) /\ RefilledByWholeTokens(rOp)

\* C6: every stored token count is between 0 and the capacity.
C6_TokensWithinBounds ==
  /\ \A rk \in DOMAIN redis :
       0 <= redis[rk].value.tokens /\ redis[rk].value.tokens <= Capacity(cfg)
  /\ \A k \in DOMAIN buckets :
       0 <= buckets[k][1] /\ buckets[k][1] <= Capacity(cfg)

\* C7: every record written to Redis carries an expiration of at least the
\* full-refill time capacity / refill_rate * refill_time, i.e. the tokens that
\* accrue over its expiration reach the capacity.
C7_ExpirationCoversFullRefill ==
  \A rk \in DOMAIN redis : AddedTokens(cfg, redis[rk].ttl) >= Capacity(cfg)

\* C8: on the Redis backend the calls allowed for a key up to now never exceed
\* capacity + refill_rate * (now - t0) / refill_time, t0 the key's first call.
C8_AllowedWithinBudget ==
  \A k \in Keys :
    rlog[k].calls > 0
      => rlog[k].allowed * One(cfg)
           <= Capacity(cfg) + AddedTokens(cfg, clock - rlog[k].first)

\* The claim of C9 for one call: when now is earlier than the stored
\* timestamp, the refill step gives what an elapsed time of zero gives.
NegativeElapsedIsZero(op) ==
  (op.n > 0 /\ op.current_time < op.last_time)
    => /\ op.refilled = Refill(cfg, op.tokens0, op.last_time, op.last_time)
       /\ op.allowed = CanConsume(cfg, Refill(cfg, op.tokens0, op.last_time, op.last_time))

\* C9: a call evaluated with now earlier than the stored observedAt refills as
\* if no time had elapsed and decides accordingly.
C9_NegativeElapsedClamped == NegativeElapsedIsZero(mOp) /\ NegativeElapsedIsZero(rOp)

\* C10: the timestamp stored for a key never decreases.
C10_ObservedAtNeverDecreases ==
  [][ /\ \A rk \in DOMAIN redis :
           redis'[rk].value.timestamp >= redis[rk].value.timestamp
      /\ \A k \in DOMAIN buckets :
           buckets'[k][2] >= buckets[k][2] ]_vars

\* the record a backend holds for a key, as an optional value
MemoryRecord(b, k) == IF k \in DOMAIN b THEN <<b[k]>> ELSE <<>>
RedisRecord(store, k) ==
  IF _make_key(k) \in DOMAIN store THEN <<store[_make_key(k)]>> ELSE <<>>

\* C11: a get_bucket_info call changes nothing that is stored: it creates no
\* record, changes no tokens or timestamp, and leaves the outcome of a consume
\* call made next at the same instant, for any key, what it was.
C11_InspectChangesNothing ==
  [][ info'.n # info.n =>
        /\ buckets' = buckets
        /\ redis' = redis
        /\ \A k \in Keys :
             /\ MemoryConsume(cfg, buckets', k, clock').result
                  = MemoryConsume(cfg, buckets, k, clock).result
             /\ ConsumeTokenScript(cfg, redis', _make_key(k), clock', Expiration, clock').result
                  = ConsumeTokenScript(cfg, redis, _make_key(k), clock, Expiration, clock).result
    ]_vars

\* C11 witness: get_bucket_info was called twice, the last time on a key of the
\* memory backend that had no record, and the consume call made after it at the
\* same instant was the first of that key and found no record.
C11_Witness ==
  /\ info.n >= 2 /\ info.backend = "memory" /\ ~info.observed
  /\ mOp.n = 1 /\ mOp.key = info.key /\ ~mOp.had /\ mOp.current_time = info.at
  /\ mOp.allowed

\* C12: get_bucket_info reports capacity and no observation time for a key with
\* no record, and for a key with a record its timestamp and its tokens with the
\* refill accrued since that timestamp, capped at capacity.
C12_InspectReportsCurrentTokens ==
  info.n > 0 =>
    IF ~info.observed
    THEN info.report.tokens = Capacity(cfg) /\ info.report.last_refill = <<>>
    ELSE /\ info.report.last_refill = <<info.stored[2]>>
         /\ info.report.tokens
              = Min(Capacity(cfg),
                    info.stored[1] + AddedTokens(cfg, info.at - info.stored[2]))

\* C18: an operation on one key (consume, set_bucket_state, get_bucket_info)
\* leaves the record of every other key as it was, on both backends; the two
\* keys differ only in letter case.
C18_OtherKeysUntouched ==
  [][ \A k \in Keys :
        k # acted' =>
          /\ MemoryRecord(buckets', k) = MemoryRecord(buckets, k)
          /\ RedisRecord(redis', k) = RedisRecord(redis, k) ]_vars

\* C18 witness: the two keys, which differ only in case, hold different records
\* on both backends after operations on each.
C18_Witness ==
  /\ DOMAIN buckets = Keys
  /\ buckets[<<"u">>] # buckets[<<"U">>]
  /\ RedisRecord(redis, <<"u">>) # <<>> /\ RedisRecord(redis, <<"U">>) # <<>>
  /\ RedisRecord(redis, <<"u">>)[1].value # RedisRecord(redis, <<"U">>)[1].value

\* One step of the reference function from an optional state <<tokens, observedAt>>.
ReferenceStep(state, now) ==
  LET s == IF state = <<>> THEN <<Capacity(cfg), now>> ELSE state[1]
      t == Min(Capacity(cfg), s[1] + AddedTokens(cfg, now - s[2]))
  IN [ allowed |-> t >= One(cfg),
       state   |-> <<IF t >= One(cfg) THEN t - One(cfg) ELSE t, now>> ]

\* the state a Redis client can read for a key at time now, as an optional value
RedisVisible(store, k, now) ==
  LET data == RedisGet(store, _make_key(k), now)
  IN IF data = <<>> THEN <<>> ELSE << <<data[1].tokens, data[1].timestamp>> >>

\* C19: each sequential consume call is one step of the reference function:
\* an absent key starts as (capacity, now), the refill is capped at capacity,
\* the call is allowed exactly when the refilled count is at least 1 and then
\* takes one token, and now is stored in both cases.
C19_ConsumeIsReferenceStep ==
  [][ mOp' # mOp =>
        LET k == acted'
            m == ReferenceStep(MemoryRecord(buckets, k), clock)
            r == ReferenceStep(RedisVisible(redis, k, clock), clock)
        IN /\ mOp'.allowed = m.allowed
           /\ buckets'[k] = m.state
           /\ rOp'.allowed = r.allowed
           /\ RedisVisible(redis', k, clock') = <<r.state>> ]_vars

\* C19 witness: a call was denied after a partial refill and the refilled count
\* was stored with the time of the call, on both backends.
C19_Witness ==
  /\ mOp.n >= 2 /\ ~mOp.allowed /\ mOp.refilled > mOp.tokens0
  /\ buckets[mOp.key] = <<mOp.refilled, clock>>
  /\ rOp.n >= 2 /\ ~rOp.allowed /\ rOp.refilled > rOp.tokens0
  /\ RedisVisible(redis, rOp.key, clock) = << <<rOp.refilled, clock>> >>

\* a call made exactly refill_time / refill_rate after its key was left with 0
\* tokens, with only denied calls in between, is allowed
AllowedOneIntervalAfterEmpty(cr) ==
  (cr.since >= 0 /\ (cr.now - cr.since) * cfg.refill_rate = cfg.refill_time)
    => cr.allowed

C16_StoreFailureIsDistinct ==
  (req.n > 0 /\ req.failed)
    => /\ req.outcome = "ConnectionError"
       /\ req.func_runs = 0

\* C16 witness: a request whose consume round trip failed ended with the
\* store's exception after an earlier call had left a record for its key.
C16_Witness ==
  /\ req.n > 0 /\ req.failed /\ req.outcome = "ConnectionError"
  /\ req.backend = "redis" /\ _make_key(req.key) \in DOMAIN redis

\* C17: the retry-after of every denial equals refill_time / refill_rate.
C17_RetryAfterIsSecondsPerToken ==
  (req.n > 0 /\ req.outcome = "429")
    => req.retry_after * cfg.refill_rate = cfg.refill_time

\* the string is a count that int() reads as a positive integer
IsPositiveInteger(s) == IntOf(s).ok /\ IntOf(s).value > 0

\* C14: parse_rate_limit_string fails when the string has no '/', when the left
\* side is not a positive integer (0 and negative integers included), and when
\* the right side is not one of second, minute, hour, day.
C14_ParserRejectsInvalid ==
  parsed.done =>
    LET rs == parsed.rate_string
        i  == CHOOSE j \in Slashes(rs) : \A k \in Slashes(rs) : j <= k
    IN ( \/ Slashes(rs) = {}
         \/ ~IsPositiveInteger(SubSeq(rs, 1, i - 1))
         \/ SubSeq(rs, i + 1, Len(rs)) \notin {W_second, W_minute, W_hour, W_day} )
       => ~parsed.result.ok

\* C15: for every positive integer N and every period of second, minute, hour,
\* day, "N/period" parses to capacity N, refill rate N and the period's length
\* of 1, 60, 3600 or 86400 seconds.
C15_ParserValues ==
  \A n \in 1..MaxRequests :
    \A p \in { <<W_second, 1>>, <<W_minute, 60>>, <<W_hour, 3600>>, <<W_day, 86400>> } :
      (parsed.done /\ parsed.rate_string = Decimal(n) \o <<"/">> \o p[1])
        => parsed.result = [ok |-> TRUE, capacity |-> n, refill_rate |-> n,
                            refill_time |-> p[2]]

\* C15 witness: "10/minute" was parsed to (10, 10, 60).
C15_Witness ==
  /\ parsed.done
  /\ parsed.rate_string = <<"1", "0", "/">> \o W_minute
  /\ parsed.result = [ok |-> TRUE, capacity |-> 10, refill_rate |-> 10, refill_time |-> 60]

\* C13: a configuration with a non-positive capacity, refill rate or refill
\* period, or an unparsable rate string, is rejected when the limiter is
\* constructed, and no request fails because of the configuration.
C13_InvalidConfigRejectedAtConstruction ==
  ctor.built = "ok" =>
    /\ ctor.config.capacity > 0
    /\ ctor.config.refill_rate > 0
    /\ ctor.config.refill_time > 0
    /\ ctor.request \in {"none", "returned", "429"}

\* C21: get_bucket_state(key) returns None for a key with no record and
\* otherwise the (tokens, timestamp) pair the store holds for the key, on the
\* memory backend and on the Redis backend with a bytes or a str client.
C21_GetReturnsLastStored ==
  info.n > 0 =>
    info.state = IF info.observed THEN <<info.stored>> ELSE <<>>

\* C22: a request through one of two separately decorated limiters leaves the
\* record and the decision the other limiter has for the same key unchanged,
\* on the memory backend and on the Redis backend with the default prefix.
C22_LimitersIndependent ==
  limiters.last.n > 0 =>
    /\ limiters.last.other_after = limiters.last.other_before
    /\ limiters.last.decision_after = limiters.last.decision_before

\* the server and the key prefix the caller supplied (the defaults when none)
SuppliedServer ==
  IF made.redis_client # <<>> THEN made.redis_client[1]
  ELSE IF made.host # <<>> THEN made.host[1] ELSE "localhost"

SuppliedPrefix == IF made.key_prefix # <<>> THEN made.key_prefix[1] ELSE key_prefix

\* C24: storage_type "memory" builds the in-process backend, "redis" builds a
\* backend that writes its records under the supplied key_prefix on the
\* server of the supplied client or address, any other type is rejected.
C24_BackendAsSupplied ==
  (made.built # "pending" /\ ~(made.redis_client # <<>> /\ made.host # <<>>)) =>
    IF made.storage_type = "memory"
    THEN made.built = "ok" /\ made.storage.kind = "memory"
    ELSE IF made.storage_type = "redis"
    THEN /\ made.built = "ok" /\ made.storage.kind = "redis"
         /\ made.storage.key_prefix = SuppliedPrefix
         /\ made.storage.server = SuppliedServer
         /\ made.written # <<>> =>
              /\ made.written[1].server = SuppliedServer
              /\ made.written[1].rkey = SuppliedPrefix \o made.written[1].key
    ELSE made.built = "ValueError"

\* C23: every decorated request makes exactly one consume call; the wrapped
\* function runs exactly once when the consume call returned allowed and not
\* at all otherwise; a request whose consume call returned denied is answered
\* with a 429.
C23_WrappedRunsIffAllowed ==
  req.n > 0 =>
    /\ req.consumed = 1
    /\ req.func_runs = (IF req.allowed THEN 1 ELSE 0)
    /\ (~req.failed /\ ~req.allowed) => req.outcome = "429"

====
